---- MODULE Spec2Model ----
(***************************************************************************)
(* react-native-ble-manager: the native BleManager singleton              *)
(* (ios/RNBleManager.m) as a state machine.  The CoreBluetooth central     *)
(* manager is the external adapter: it accepts connect / cancel / scan     *)
(* requests and answers through the delegate callbacks.                    *)
(*                                                                         *)
(* An optional value (Swift T?) is a set: {} is nil, {v} is a value.       *)
(***************************************************************************)
EXTENDS Integers, Sequences, FiniteSets, TLC

\* ---------------------------------------------------------------- bounds
MaxCalls == 2        \* connectToPeripheral invocations in one behaviour
MaxScans == 2        \* startScan calls in one behaviour
MaxOps   == 2        \* GATT calls that reach the adapter in one behaviour
MaxSetups == 2       \* setupEventListeners() runs in one behaviour
MaxLen   == 3        \* bytes in a buffer, characters in a hex string

\* ---------------------------------------------------------------- inputs
Ids      == {"A", "B"}          \* peripheral identifiers (valid UUID strings)
BadId    == "bad"               \* a string UUID(uuidString:) rejects
Targets  == {"A"}               \* the peripheral the callers of Spec address
Params   == {"p1"}              \* ConnectionParameters values
OptParams == {{}} \cup {{p} : p \in Params}
NewParams == {"p2"}              \* params of updateConnectionParameters
NoCall   == 0                   \* pendingConnections[id] == nil

\* advertisements: a name is a sequence of characters (1, 2)
Names    == {<<1, 1>>, <<1, 2>>}
Rssis    == {-85, -70, -60}
MfrData  == {1}                 \* manufacturer data values
Opt(S)   == {{}} \cup {{x} : x \in S}
Devices  == [id : Targets, name : Opt(Names), rssi : Rssis,
             manufacturerData : Opt(MfrData), serviceUUIDs : {{}, {"s1"}}]
\* scan filters as RNBleManager.startScan builds them and options as it
\* parses them; scanMode is advisory and timeout only fixes when the Timer fires
Filters  == [serviceUUIDs : Opt({{"s1"}}), name : Opt({<<1, 2>>}),
             namePrefix : Opt({<<1>>}), manufacturerData : Opt({1}),
             minRssi : Opt({-70})]
Options  == [continuous : BOOLEAN, allowDuplicates : BOOLEAN]
\* filters that test the signal strength only
RssiFilters == {f \in Filters : /\ f.serviceUUIDs = {} /\ f.name = {}
                                /\ f.namePrefix = {} /\ f.manufacturerData = {}}
\* advertisements that differ in signal strength only
PlainDevices == {d \in Devices : /\ d.name = {} /\ d.manufacturerData = {}
                                 /\ d.serviceUUIDs = {}}
\* the remote GATT table: CBCharacteristic.properties of each characteristic
Properties == [c1 |-> {"read", "notify"}, c2 |-> {"read", "write"},
               c3 |-> {"write", "writeWithoutResponse"}]
Chars    == DOMAIN Properties
\* value strings of writeCharacteristic, as sequences of characters
HexInputs == {<<"0", "f">>, <<"f">>, <<"g", "0">>, <<"+", "f">>}
Mtus     == {0, 185}             \* mtu arguments of requestMTU
\* the events of the native module and the callbacks an application passes
EventNames == {"onDeviceDiscovered", "onBluetoothStateChanged",
               "onConnectionStateChanged", "onNotificationReceived", "onLog",
               "onMtuUpdated", "onRssiUpdated"}
Callbacks == {"f", "g"}
\* DataUtils arguments
Bytes    == {10, 171}
RECURSIVE SeqsUpTo(_, _)
SeqsUpTo(S, n) ==
    IF n = 0 THEN {<<>>}
    ELSE LET shorter == SeqsUpTo(S, n - 1)
         IN  shorter \cup {Append(q, x) : q \in shorter, x \in S}
ByteSeqs == SeqsUpTo(Bytes, MaxLen)
SplitMtus == 0..3                \* mtu arguments of splitIntoPackets
HeaderSizes == {0, 1}
\* characters of the strings handed to the hex decoders
HexAlphabet == {"0", "a", "A", "g", "+"}
HexStrings == SeqsUpTo(HexAlphabet, MaxLen)
\* numbers handed to the integer encoders; a 32-bit quantity is held as its
\* two 16-bit halves, hi counted as signed when the quantity is
Uint16s  == {0, 255, 256, 32768, 65535}
Int16s   == {-32768, -1, 0, 32767}
Uint32s  == [hi : {0, 32767, 32768, 65535}, lo : {0, 65535}]
Int32s   == [hi : {-32768, -1, 0, 32767}, lo : {0, 65535}]
Codecs   == {"Uint16LE", "Uint16BE", "Int16LE", "Int16BE",
             "Uint32LE", "Uint32BE", "Int32LE", "Int32BE"}
\* buffers handed to the integer decoders
Buffers  == ByteSeqs \cup {<<0, 128>>, <<255, 255>>, <<0, 0, 0, 128>>, <<255, 255, 255, 255>>}

VARIABLES
    \* BleManager fields
    peripherals,          \* keys of peripherals: [UUID: CBPeripheral]
    pendingConnections,   \* id -> call holding the entry, or NoCall
    autoReconnectMap,     \* id -> {} (no entry) | {TRUE} | {FALSE}
    connectionParameters, \* id -> {} | {params}
    \* closures scheduled on the main queue
    deadlines,            \* calls whose timeout closure has not run yet
    reconnects,           \* id -> number of scheduled reconnect closures
    \* every connectToPeripheral invocation so far, in order
    calls,                \* [id, params, kind, result]
    \* the adapter (CoreBluetooth)
    periphState,          \* id -> CBPeripheral.state
    cancelPending,        \* id -> a cancelled link whose didDisconnect is due
    \* what the last handler did
    issued,               \* adapter requests it made, in order
    reply,                \* completion it invoked synchronously ("" = none)
    emitted,              \* connection-state callbacks it invoked
    stopped,              \* history: ids disconnect()ed with no connect() since
    \* scanning
    scanFilter,           \* {} | {BleScanFilter}
    scanOptions,          \* {} | {BleScanOptions}
    scanTimer,            \* {} | {session whose startScan armed the live Timer}
    discoveredDevices,    \* id -> {} | {BleDevice}
    adapterScan,          \* {} | {[services, allowDuplicates]}: the adapter's scan
    session,              \* number of startScan calls so far
    scanEmitted,          \* devices the last handler passed to scanCallback
    lastStop,             \* history: "" | "timer" | "call" | "call-idle", the
                          \* last stopScan since startScan and who ran it
    \* GATT
    gattCache,            \* id -> "none" | "services" | "full": what
                          \* peripheral.services holds
    gattQueue,            \* requests the adapter has not answered yet, in order
    gattCalls,            \* GATT calls whose completion was not invoked at once
    gattEmitted,          \* notification / RSSI callbacks of the last handler
    \* the TypeScript BleManager and its NativeEventEmitter
    jsListeners,          \* event name -> listeners the emitter holds, each
                          \* named by the setupEventListeners() run that added it
    jsSubscription,       \* event name -> {} | {listener}: the ...Subscription field
    jsCallback,           \* event name -> {} | {callback}: the ...Callback field
    jsSetups,             \* setupEventListeners() runs so far
    jsDelivered,          \* callbacks the last native event invoked, in order
    \* a DataUtils call
    duOp,                 \* the function called last, "" before any
    duArg,                \* its argument
    duResult,             \* what it returned, <<>> while it runs
    duPc,                 \* "idle" | "loop" | "done": where the call stands
    duI,                  \* splitIntoPackets: the loop variable i
    duPackets,            \* splitIntoPackets: packets pushed so far
    \* callbacks, queues and history
    suppliedParameters,   \* history: id -> {} | {ConnectionParameters}, the
                          \* parameters a caller passed last for id
    timeoutPending,       \* call -> {} | {entry}: what the timeout closure of
                          \* the call read from pendingConnections, while it runs
    connectionStateCallback, \* {} | {"bridge"}: BleManager.connectionStateCallback
    sent,                 \* sendEvent(onConnectionStateChanged) calls of the
                          \* last handler
    inFlight              \* {} | {device}: a didDiscover call the adapter has
                          \* put on its queue

connVars == <<pendingConnections, autoReconnectMap, connectionParameters,
              deadlines, reconnects, calls, periphState, cancelPending,
              issued, reply, emitted, stopped>>
scanVars == <<scanFilter, scanOptions, scanTimer, discoveredDevices,
              adapterScan, session, scanEmitted, lastStop>>
gattVars == <<gattCache, gattQueue, gattCalls, gattEmitted>>
jsVars == <<jsListeners, jsSubscription, jsCallback, jsSetups, jsDelivered>>
duVars == <<duOp, duArg, duResult, duPc, duI, duPackets>>
auxVars == <<suppliedParameters, timeoutPending, connectionStateCallback, sent,
             inFlight>>
vars == <<peripherals, connVars, scanVars, gattVars, jsVars, duVars, auxVars>>

\* ------------------------------------------------------------ the adapter
\* centralManager.connect(peripheral, options:)
AdapterConnect(ps, id) ==
    IF ps[id] = "disconnected" THEN [ps EXCEPT ![id] = "connecting"] ELSE ps

\* centralManager.cancelPeripheralConnection(peripheral): the link goes down
AdapterCancel(ps, id) == [ps EXCEPT ![id] = "disconnected"]

\* ... and the adapter owes a didDisconnectPeripheral for a link it had
AdapterCancelOwes(ps, cp, id) ==
    [cp EXCEPT ![id] = cp[id] \/ ps[id] # "disconnected"]

ConnectReq(id) == [op |-> "connect", id |-> id, autoReconnect |-> {}]
DiscoverReq(id) == [op |-> "discoverServices", id |-> id, autoReconnect |-> {}]
\* a cancel request, with the auto-reconnect entry in force when it is made
CancelReq(id, flag) == [op |-> "cancel", id |-> id, autoReconnect |-> flag]

Event(id, state) == [id |-> id, state |-> state]

\* a GATT request at the adapter; call is the GATT call it serves (0: none)
GattReq(id, op, char, call) == [id |-> id, op |-> op, char |-> char, call |-> call]

RECURSIVE DropRequests(_, _)
\* a link that goes down takes its unanswered requests with it
DropRequests(q, id) ==
    IF q = <<>> THEN <<>>
    ELSE IF Head(q).id = id THEN DropRequests(Tail(q), id)
    ELSE <<Head(q)>> \o DropRequests(Tail(q), id)

\* ... and CBPeripheral.services is nil again
ClearCache(cache, id) == [cache EXCEPT ![id] = "none"]

\* ------------------------------------------------- BleManager: connections
\* history: a caller passes params for id; nil supplies nothing
Supply(supplied, id, params) ==
    IF params = {} THEN supplied ELSE [supplied EXCEPT ![id] = params]

\* connectionStateCallback?(id, state): the bridge's closure, when one is
\* registered, sends the events
Invoke(callback, events) == IF callback = {} THEN <<>> ELSE events

NewCall(id, params, kind) ==
    [id |-> id, params |-> params, kind |-> kind, result |-> "none"]

SetResultDropped(cs, c, r) == cs

\* pending.completion(...): the call gets its result
SetResult(cs, c, r) == [cs EXCEPT ![c].result = r]

StorePendingForAll(pend, id, c) == [i \in Ids |-> c]

\* pendingConnections[peripheral.identifier] = connectionParams
StorePending(pend, id, c) == [pend EXCEPT ![id] = c]

RemovePendingKeepsEntry(pend, id) == pend

\* pendingConnections.removeValue(forKey:)
RemovePending(pend, id) == [pend EXCEPT ![id] = NoCall]

\* connectToPeripheral(_:timeout:params:completion:).  The timeout value only
\* fixes when the closure runs; closures run in any order here.
connectToPeripheral(id, params, kind) ==
    /\ Len(calls) < MaxCalls
    /\ calls' = Append(calls, NewCall(id, params, kind))
    /\ pendingConnections' = StorePending(pendingConnections, id, Len(calls) + 1)
    /\ periphState' = AdapterConnect(periphState, id)
    /\ issued' = <<ConnectReq(id)>>
    /\ deadlines' = deadlines \cup {Len(calls) + 1}

\* the closure of DispatchQueue.main.asyncAfter(deadline: .now() + timeout)
\* scheduled by call c; it captures the peripheral only
timeoutClosure(c) ==
    /\ c \in deadlines
    /\ deadlines' = deadlines \ {c}
    /\ LET id == calls[c].id
           p  == pendingConnections[id]
       IN  IF p # NoCall
           THEN /\ pendingConnections' = RemovePending(pendingConnections, id)
                /\ periphState' = AdapterCancel(periphState, id)
                /\ cancelPending' = AdapterCancelOwes(periphState, cancelPending, id)
                /\ issued' = <<CancelReq(id, autoReconnectMap[id])>>
                /\ calls' = SetResult(calls, p, "timeout")
                /\ gattCache' = ClearCache(gattCache, id)
                /\ gattQueue' = DropRequests(gattQueue, id)
           ELSE /\ issued' = <<>>
                /\ UNCHANGED <<pendingConnections, periphState, cancelPending, calls,
                               gattCache, gattQueue>>
    /\ reply' = ""
    /\ emitted' = <<>>
    /\ gattEmitted' = <<>>
    /\ UNCHANGED <<peripherals, autoReconnectMap, connectionParameters, reconnects,
                   stopped, gattCalls>>
    /\ UNCHANGED <<scanVars, jsVars, duVars>>
    /\ sent' = <<>>
    /\ UNCHANGED <<suppliedParameters, timeoutPending, connectionStateCallback, inFlight>>

\* The closure runs on the main queue while the delegate callbacks run on the
\* manager's own queue, so its statements interleave with theirs.  First
\* statement: if let pending = self?.pendingConnections[peripheral.identifier]
timeoutRead(c) ==
    /\ c \in deadlines
    /\ timeoutPending[c] = {}
    /\ timeoutPending' = [timeoutPending EXCEPT ![c] = {pendingConnections[calls[c].id]}]
    /\ UNCHANGED <<peripherals, connVars, scanVars, gattVars, jsVars, duVars>>
    /\ UNCHANGED <<suppliedParameters, connectionStateCallback, sent, inFlight>>

\* ... and the body of the if: removeValue, cancelPeripheralConnection and
\* pending.completion(timeout error), with the entry that was read
timeoutAct(c) ==
    /\ c \in deadlines
    /\ timeoutPending[c] # {}
    /\ deadlines' = deadlines \ {c}
    /\ timeoutPending' = [timeoutPending EXCEPT ![c] = {}]
    /\ LET id == calls[c].id
       IN  \E p \in timeoutPending[c] :
              IF p # NoCall
              THEN /\ pendingConnections' = RemovePending(pendingConnections, id)
                   /\ periphState' = AdapterCancel(periphState, id)
                   /\ cancelPending' = AdapterCancelOwes(periphState, cancelPending, id)
                   /\ issued' = <<CancelReq(id, autoReconnectMap[id])>>
                   /\ calls' = SetResult(calls, p, "timeout")
                   /\ gattCache' = ClearCache(gattCache, id)
                   /\ gattQueue' = DropRequests(gattQueue, id)
              ELSE /\ issued' = <<>>
                   /\ UNCHANGED <<pendingConnections, periphState, cancelPending,
                                  calls, gattCache, gattQueue>>
    /\ reply' = ""
    /\ emitted' = <<>>
    /\ sent' = <<>>
    /\ gattEmitted' = <<>>
    /\ UNCHANGED <<peripherals, autoReconnectMap, connectionParameters, reconnects,
                   stopped, gattCalls>>
    /\ UNCHANGED <<suppliedParameters, connectionStateCallback, inFlight>>
    /\ UNCHANGED <<scanVars, jsVars, duVars>>

\* BleManager.connect(id:timeout:autoReconnect:params:completion:);
\* retrievable is the answer of centralManager.retrievePeripherals
connect(idIn, autoReconnect, params, retrievable) ==
    /\ IF idIn \notin Ids
       THEN /\ reply' = "Invalid UUID"
            /\ issued' = <<>>
            /\ UNCHANGED <<peripherals, autoReconnectMap, pendingConnections,
                           periphState, deadlines, calls, stopped,
                           suppliedParameters>>
       ELSE /\ autoReconnectMap' = [autoReconnectMap EXCEPT ![idIn] = {autoReconnect}]
            /\ stopped' = stopped \ {idIn}
            /\ IF idIn \in peripherals \/ retrievable
               THEN /\ peripherals' = peripherals \cup {idIn}
                    /\ connectToPeripheral(idIn, params, "caller")
                    /\ suppliedParameters' = Supply(suppliedParameters, idIn, params)
                    /\ reply' = ""
               ELSE /\ reply' = "Peripheral not found"
                    /\ issued' = <<>>
                    /\ UNCHANGED <<peripherals, pendingConnections, periphState,
                                   deadlines, calls, suppliedParameters>>
    /\ emitted' = <<>>
    /\ UNCHANGED <<connectionParameters, reconnects, cancelPending>>
    /\ UNCHANGED <<scanVars, gattVars, jsVars, duVars>>
    /\ sent' = <<>>
    /\ UNCHANGED <<timeoutPending, connectionStateCallback, inFlight>>

ClearAutoReconnectSkipped(m, id) == m

\* autoReconnectMap[uuid] = false
ClearAutoReconnect(m, id) == [m EXCEPT ![id] = {FALSE}]

\* BleManager.disconnect(id:completion:)
disconnect(idIn) ==
    /\ IF idIn \notin Ids \/ idIn \notin peripherals
       THEN /\ reply' = "Peripheral not found"
            /\ issued' = <<>>
            /\ UNCHANGED <<autoReconnectMap, periphState, cancelPending, stopped,
                           gattCache, gattQueue>>
       ELSE /\ autoReconnectMap' = ClearAutoReconnect(autoReconnectMap, idIn)
            /\ gattCache' = ClearCache(gattCache, idIn)
            /\ gattQueue' = DropRequests(gattQueue, idIn)
            /\ stopped' = stopped \cup {idIn}
            /\ periphState' = AdapterCancel(periphState, idIn)
            /\ cancelPending' = AdapterCancelOwes(periphState, cancelPending, idIn)
            /\ issued' = <<CancelReq(idIn, autoReconnectMap'[idIn])>>
            /\ reply' = "ok"
    /\ emitted' = <<>>
    /\ gattEmitted' = <<>>
    /\ UNCHANGED <<peripherals, pendingConnections, connectionParameters,
                   deadlines, reconnects, calls, gattCalls>>
    /\ UNCHANGED <<scanVars, jsVars, duVars>>
    /\ sent' = <<>>
    /\ UNCHANGED <<suppliedParameters, timeoutPending, connectionStateCallback, inFlight>>

\* centralManager(_:didConnect:)
didConnect(id) ==
    /\ periphState[id] = "connecting"
    /\ ~cancelPending[id]
    /\ periphState' = [periphState EXCEPT ![id] = "connected"]
    /\ LET p == pendingConnections[id]
       IN  IF p # NoCall
           THEN /\ pendingConnections' = RemovePending(pendingConnections, id)
                /\ calls' = SetResult(calls, p, "ok")
                /\ connectionParameters' =
                      IF calls[p].params # {}
                      THEN [connectionParameters EXCEPT ![id] = calls[p].params]
                      ELSE connectionParameters
           ELSE UNCHANGED <<pendingConnections, calls, connectionParameters>>
    /\ issued' = <<DiscoverReq(id)>>
    /\ emitted' = <<Event(id, "connected")>>
    /\ reply' = ""
    /\ gattQueue' = Append(gattQueue, GattReq(id, "discoverServices", "", 0))
    /\ gattEmitted' = <<>>
    /\ UNCHANGED <<peripherals, autoReconnectMap, deadlines, reconnects, cancelPending,
                   stopped, gattCache, gattCalls>>
    /\ UNCHANGED <<scanVars, jsVars, duVars>>
    /\ sent' = Invoke(connectionStateCallback, <<Event(id, "connected")>>)
    /\ UNCHANGED <<suppliedParameters, timeoutPending, connectionStateCallback, inFlight>>

ScheduleReconnectIgnoringFlag(r, m, id) == [r EXCEPT ![id] = r[id] + 1]

\* if let autoReconnect = autoReconnectMap[id], autoReconnect { asyncAfter 3.0 }
ScheduleReconnect(r, m, id) ==
    IF m[id] = {TRUE} THEN [r EXCEPT ![id] = r[id] + 1] ELSE r

\* centralManager(_:didDisconnectPeripheral:error:): the adapter reports a
\* link it dropped after a cancel, or an established link that was lost
didDisconnectPeripheral(id) ==
    /\ cancelPending[id] \/ periphState[id] = "connected"
    /\ IF cancelPending[id]
       THEN /\ cancelPending' = [cancelPending EXCEPT ![id] = FALSE]
            /\ UNCHANGED periphState
       ELSE /\ periphState' = [periphState EXCEPT ![id] = "disconnected"]
            /\ UNCHANGED cancelPending
    /\ reconnects' = ScheduleReconnect(reconnects, autoReconnectMap, id)
    /\ issued' = <<>>
    /\ emitted' = <<Event(id, "disconnected")>>
    /\ reply' = ""
    /\ gattCache' = ClearCache(gattCache, id)
    /\ gattQueue' = DropRequests(gattQueue, id)
    /\ gattEmitted' = <<>>
    /\ UNCHANGED <<peripherals, pendingConnections, autoReconnectMap,
                   connectionParameters, deadlines, calls, stopped, gattCalls>>
    /\ UNCHANGED <<scanVars, jsVars, duVars>>
    /\ sent' = Invoke(connectionStateCallback, <<Event(id, "disconnected")>>)
    /\ UNCHANGED <<suppliedParameters, timeoutPending, connectionStateCallback, inFlight>>

\* the closure of DispatchQueue.main.asyncAfter(deadline: .now() + 3.0)
reconnectClosure(id) ==
    /\ reconnects[id] > 0
    /\ reconnects' = [reconnects EXCEPT ![id] = reconnects[id] - 1]
    /\ connectToPeripheral(id, connectionParameters[id], "reconnect")
    /\ reply' = ""
    /\ emitted' = <<>>
    /\ UNCHANGED <<peripherals, autoReconnectMap, connectionParameters, cancelPending,
                   stopped>>
    /\ UNCHANGED <<scanVars, gattVars, jsVars, duVars>>
    /\ sent' = <<>>
    /\ UNCHANGED <<suppliedParameters, timeoutPending, connectionStateCallback, inFlight>>

didFailToConnectReconnects(id) ==
    /\ periphState[id] = "connecting"
    /\ ~cancelPending[id]
    /\ periphState' = [periphState EXCEPT ![id] = "disconnected"]
    /\ LET p == pendingConnections[id]
       IN  IF p # NoCall
           THEN /\ pendingConnections' = RemovePending(pendingConnections, id)
                /\ calls' = SetResult(calls, p, "failed")
           ELSE UNCHANGED <<pendingConnections, calls>>
    /\ reconnects' = [reconnects EXCEPT ![id] = reconnects[id] + 1]
    /\ issued' = <<>>
    /\ emitted' = <<Event(id, "disconnected")>>
    /\ reply' = ""
    /\ UNCHANGED <<peripherals, autoReconnectMap, connectionParameters,
                   deadlines, cancelPending, stopped>>
    /\ UNCHANGED <<scanVars, gattVars, jsVars, duVars>>
    /\ sent' = Invoke(connectionStateCallback, <<Event(id, "disconnected")>>)
    /\ UNCHANGED <<suppliedParameters, timeoutPending, connectionStateCallback, inFlight>>

\* centralManager(_:didFailToConnect:error:)
didFailToConnect(id) ==
    /\ periphState[id] = "connecting"
    /\ ~cancelPending[id]
    /\ periphState' = [periphState EXCEPT ![id] = "disconnected"]
    /\ LET p == pendingConnections[id]
       IN  IF p # NoCall
           THEN /\ pendingConnections' = RemovePending(pendingConnections, id)
                /\ calls' = SetResult(calls, p, "failed")
           ELSE UNCHANGED <<pendingConnections, calls>>
    /\ issued' = <<>>
    /\ emitted' = <<Event(id, "disconnected")>>
    /\ reply' = ""
    /\ UNCHANGED <<peripherals, autoReconnectMap, connectionParameters,
                   deadlines, reconnects, cancelPending, stopped>>
    /\ UNCHANGED <<scanVars, gattVars, jsVars, duVars>>
    /\ sent' = Invoke(connectionStateCallback, <<Event(id, "disconnected")>>)
    /\ UNCHANGED <<suppliedParameters, timeoutPending, connectionStateCallback, inFlight>>

\* ------------------------------------------------------ BleManager: scans
StartsWith(str, prefix) ==
    Len(prefix) <= Len(str) /\ SubSeq(str, 1, Len(prefix)) = prefix

shouldFilterDeviceAtMinRssi(filter, device) ==
    IF filter = {} THEN FALSE
    ELSE LET f == CHOOSE x \in filter : TRUE
         IN  IF f.minRssi # {} /\ \E m \in f.minRssi : device.rssi <= m THEN TRUE
             ELSE IF f.name # {} /\ device.name # f.name THEN TRUE
             ELSE IF f.namePrefix # {}
                     /\ ~(\E n \in device.name, q \in f.namePrefix : StartsWith(n, q))
                  THEN TRUE
             ELSE FALSE

\* shouldFilterDevice(_:): TRUE when the device is to be dropped
shouldFilterDevice(filter, device) ==
    IF filter = {} THEN FALSE
    ELSE LET f == CHOOSE x \in filter : TRUE
         IN  IF f.minRssi # {} /\ \E m \in f.minRssi : device.rssi < m THEN TRUE
             ELSE IF f.name # {} /\ device.name # f.name THEN TRUE
             ELSE IF f.namePrefix # {}
                     /\ ~(\E n \in device.name, q \in f.namePrefix : StartsWith(n, q))
                  THEN TRUE
             ELSE FALSE

\* scanForPeripherals(withServices:options:): the request the adapter keeps
ScanRequest(filter, options) ==
    [services |-> IF filter = {} THEN {} ELSE (CHOOSE x \in filter : TRUE).serviceUUIDs,
     allowDuplicates |-> options.allowDuplicates]

ArmScanTimerNever(timer, options, s) == timer

\* if !continuous { scanTimer?.invalidate(); scanTimer = Timer.scheduledTimer }
ArmScanTimer(timer, options, s) == IF ~options.continuous THEN {s} ELSE timer

RemoveAllKeeps(devices) == devices

\* discoveredDevices.removeAll()
RemoveAll(devices) == [i \in Ids |-> {}]

\* BleManager.startScan(filter:options:callback:)
startScan(filter, options) ==
    /\ session < MaxScans
    /\ session' = session + 1
    /\ scanFilter' = filter
    /\ scanOptions' = {options}
    /\ discoveredDevices' = RemoveAll(discoveredDevices)
    /\ adapterScan' = {ScanRequest(filter, options)}
    /\ scanTimer' = ArmScanTimer(scanTimer, options, session + 1)
    /\ scanEmitted' = <<>>
    /\ lastStop' = ""
    /\ UNCHANGED <<peripherals, connVars, gattVars, jsVars, duVars>>
    /\ UNCHANGED <<suppliedParameters, timeoutPending, sent, inFlight>>

\* RNBleManager.startScan(_:options:resolver:rejecter:): the block on the
\* main queue starts the scan and then registers the bridge's callbacks
rnStartScan(filter, options) ==
    /\ startScan(filter, options)
    /\ connectionStateCallback' = {"bridge"}

InvalidateScanTimerKeeps(timer) == timer

\* scanTimer?.invalidate(); scanTimer = nil
InvalidateScanTimer(timer) == {}

\* the body of BleManager.stopScan(), run by a caller or by the Timer block
stopScanBy(who) ==
    /\ adapterScan' = {}
    /\ scanTimer' = InvalidateScanTimer(scanTimer)
    /\ scanEmitted' = <<>>
    /\ lastStop' = who
    /\ UNCHANGED <<scanFilter, scanOptions, discoveredDevices, session>>
    /\ UNCHANGED <<peripherals, connVars, gattVars, jsVars, duVars, auxVars>>

\* BleManager.stopScan()
stopScan ==
    stopScanBy(IF adapterScan = {} /\ scanTimer = {} THEN "call-idle" ELSE "call")

\* the Timer block: self?.stopScan()
scanTimerFired ==
    /\ scanTimer # {}
    /\ stopScanBy("timer")

\* the adapter reports only peripherals advertising a requested service
AdapterReports(device) ==
    \E r \in adapterScan :
        r.services = {} \/ \E u \in r.services : u \cap device.serviceUUIDs # {}

RememberNothing(known, id) == known

\* peripherals[peripheral.identifier] = peripheral
Remember(known, id) == known \cup {id}

\* the body of centralManager(_:didDiscover:advertisementData:rssi:)
discovered(device) ==
    /\ IF shouldFilterDevice(scanFilter, device)
       THEN /\ scanEmitted' = <<>>
            /\ UNCHANGED <<discoveredDevices, peripherals>>
       ELSE /\ discoveredDevices' = [discoveredDevices EXCEPT ![device.id] = {device}]
            /\ peripherals' = Remember(peripherals, device.id)
            /\ scanEmitted' = <<device>>
    /\ UNCHANGED <<scanFilter, scanOptions, scanTimer, adapterScan, session, lastStop>>
    /\ UNCHANGED <<connVars, gattVars, jsVars, duVars>>
    /\ UNCHANGED <<suppliedParameters, timeoutPending, connectionStateCallback, sent>>

\* centralManager(_:didDiscover:advertisementData:rssi:).  The adapter
\* coalesces repeated discoveries at its discretion: a scan response or a
\* changed advertisement is reported again whatever allowDuplicates says.
didDiscover(device) ==
    /\ AdapterReports(device)
    /\ discovered(device)
    /\ UNCHANGED inFlight

\* the adapter, scanning, puts a didDiscover call on the manager's queue
adapterQueues(device) ==
    /\ AdapterReports(device)
    /\ inFlight = {}
    /\ inFlight' = {device}
    /\ UNCHANGED <<peripherals, connVars, scanVars, gattVars, jsVars, duVars>>
    /\ UNCHANGED <<suppliedParameters, timeoutPending, connectionStateCallback, sent>>

\* ... and the queue runs it, whatever the main queue did meanwhile
didDiscoverQueued ==
    \E device \in inFlight :
        /\ discovered(device)
        /\ inFlight' = {}

\* ------------------------------------------------------------------ GATT
\* the digits of radix 16, in lower and in upper case
HexChars == <<"0", "1", "2", "3", "4", "5", "6", "7", "8", "9",
              "a", "b", "c", "d", "e", "f">>
UpperHexChars == <<"0", "1", "2", "3", "4", "5", "6", "7", "8", "9",
                   "A", "B", "C", "D", "E", "F">>

\* the value of every digit character
HexValues ==
    [ch \in {HexChars[i] : i \in 1..16} \cup {UpperHexChars[i] : i \in 1..16} |->
        CHOOSE v \in 0..15 : HexChars[v + 1] = ch \/ UpperHexChars[v + 1] = ch]

\* one hexadecimal digit; {} when the character is none
HexDigit(ch) == IF ch \in DOMAIN HexValues THEN {HexValues[ch]} ELSE {}

\* UInt8(_:radix: 16) of two characters, {} for nil; the parser takes a sign
ParseByte(s) ==
    IF HexDigit(s[1]) # {} /\ HexDigit(s[2]) # {}
    THEN {16 * a + b : a \in HexDigit(s[1]), b \in HexDigit(s[2])}
    ELSE IF s[1] = "+" THEN HexDigit(s[2]) ELSE {}

RECURSIVE DataFromHex(_)
\* Data(hexString:), {} for nil
DataFromHex(s) ==
    IF Len(s) % 2 # 0 THEN {}
    ELSE IF s = <<>> THEN {<<>>}
    ELSE LET byte == ParseByte(SubSeq(s, 1, 2))
             rest == DataFromHex(SubSeq(s, 3, Len(s)))
         IN  {<<b>> \o r : b \in byte, r \in rest}

\* getPeripheral(_:), {} for nil
getPeripheral(idIn) == IF idIn \in Ids /\ idIn \in peripherals THEN {idIn} ELSE {}

\* findCharacteristic finds the characteristic in peripheral.services
Cached(id, char) == gattCache[id] = "full" /\ char \in Chars

\* the adapter takes a request for a connected peripheral only, and owes a
\* delegate callback for any but a write without response
Enqueue(q, ps, req) ==
    IF ps[req.id] = "connected" /\ req.op # "writeWithoutResponse"
    THEN Append(q, req) ELSE q

\* the delegate callback for a request of call c has run
MarkAnswered(cs, c) == IF c = 0 THEN cs ELSE [cs EXCEPT ![c].answered = TRUE]

\* what a GATT handler leaves alone
GattFrame(callbacks) ==
    /\ emitted' = <<>>
    /\ gattEmitted' = callbacks
    /\ UNCHANGED <<peripherals, pendingConnections, autoReconnectMap,
                   connectionParameters, deadlines, reconnects, calls, periphState,
                   cancelPending, stopped>>
    /\ UNCHANGED <<scanVars, jsVars, duVars, auxVars>>

\* completion(error) before anything reaches the adapter
GattFail(msg) ==
    /\ reply' = msg
    /\ issued' = <<>>
    /\ UNCHANGED <<gattCache, gattQueue, gattCalls>>

\* the handler hands req to the adapter; result is what its completion got
\* before the handler returned ("none": the completion was not invoked)
GattSend(op, id, char, req, result) ==
    LET c == Len(gattCalls) + 1 IN
    /\ Len(gattCalls) < MaxOps
    /\ gattCalls' = Append(gattCalls, [op |-> op, id |-> id, result |-> result,
                                       answered |-> FALSE])
    /\ issued' = <<GattReq(id, req, char, c)>>
    /\ gattQueue' = Enqueue(gattQueue, periphState, GattReq(id, req, char, c))
    /\ reply' = IF result = "none" THEN "" ELSE result
    /\ UNCHANGED gattCache

\* BleManager.readCharacteristic(peripheralId:serviceUuid:characteristicUuid:completion:)
readCharacteristic(idIn, char) ==
    /\ IF getPeripheral(idIn) = {} THEN GattFail("Peripheral not found")
       ELSE IF Cached(idIn, char)
       THEN GattSend("read", idIn, char, "readValue", "none")
       ELSE GattSend("read", idIn, char, "discoverServices", "none")
    /\ GattFrame(<<>>)

WriteTypeAcknowledgedFirst(props) ==
    IF "write" \in props THEN "writeWithResponse"
    ELSE IF "writeWithoutResponse" \in props THEN "writeWithoutResponse"
    ELSE "none"

\* the CBCharacteristicWriteType writeCharacteristic picks, "none" for neither
WriteType(props) ==
    IF "writeWithoutResponse" \in props THEN "writeWithoutResponse"
    ELSE IF "write" \in props THEN "writeWithResponse"
    ELSE "none"

\* BleManager.writeCharacteristic(peripheralId:serviceUuid:characteristicUuid:value:completion:)
writeCharacteristic(idIn, char, value) ==
    /\ IF getPeripheral(idIn) = {} THEN GattFail("Peripheral not found")
       ELSE IF DataFromHex(value) = {} THEN GattFail("Invalid hex string")
       ELSE IF ~Cached(idIn, char)
       THEN GattSend("write", idIn, char, "discoverServices", "none")
       ELSE IF WriteType(Properties[char]) = "none"
       THEN GattFail("Characteristic not writable")
       ELSE GattSend("write", idIn, char, WriteType(Properties[char]), "none")
    /\ GattFrame(<<>>)

\* BleManager.enableNotifications(peripheralId:serviceUuid:characteristicUuid:enabled:completion:)
enableNotifications(idIn, char, enabled) ==
    /\ IF getPeripheral(idIn) = {} THEN GattFail("Peripheral not found")
       ELSE IF Cached(idIn, char)
       THEN GattSend("notify", idIn, char, "setNotifyValue", "ok")
       ELSE GattSend("notify", idIn, char, "discoverServices", "none")
    /\ GattFrame(<<>>)

\* BleManager.discoverServices(peripheralId:completion:)
discoverServices(idIn) ==
    /\ IF getPeripheral(idIn) = {} THEN GattFail("Peripheral not found")
       ELSE GattSend("discover", idIn, "", "discoverServices", "none")
    /\ GattFrame(<<>>)

\* BleManager.readRSSI(peripheralId:completion:)
readRSSI(idIn) ==
    /\ IF getPeripheral(idIn) = {} THEN GattFail("Peripheral not found")
       ELSE GattSend("rssi", idIn, "", "readRSSI", "none")
    /\ GattFrame(<<>>)

\* BleManager.requestMTU(peripheralId:mtu:completion:): the completion gets
\* maximumWriteValueLength + 3 whatever mtu is
requestMTU(idIn, mtu) ==
    /\ IF getPeripheral(idIn) = {} THEN GattFail("Peripheral not found")
       ELSE /\ reply' = "ok"
            /\ issued' = <<>>
            /\ UNCHANGED <<gattCache, gattQueue, gattCalls>>
    /\ GattFrame(<<>>)

\* BleManager.updateConnectionParameters(peripheralId:params:completion:)
updateConnectionParameters(idIn, params) ==
    /\ IF getPeripheral(idIn) = {}
       THEN /\ reply' = "Peripheral not found"
            /\ UNCHANGED <<connectionParameters, suppliedParameters>>
       ELSE /\ connectionParameters' = [connectionParameters EXCEPT ![idIn] = {params}]
            /\ suppliedParameters' = Supply(suppliedParameters, idIn, {params})
            /\ reply' = "ok"
    /\ issued' = <<>>
    /\ emitted' = <<>>
    /\ sent' = <<>>
    /\ UNCHANGED <<peripherals, pendingConnections, autoReconnectMap, deadlines,
                   reconnects, calls, periphState, cancelPending, stopped>>
    /\ UNCHANGED <<timeoutPending, connectionStateCallback, inFlight>>
    /\ UNCHANGED <<scanVars, gattVars, jsVars, duVars>>

\* a CBPeripheralDelegate callback for the oldest request, which is of kind op
Delivers(id, op, callbacks) ==
    /\ gattQueue # <<>>
    /\ Head(gattQueue).id = id
    /\ Head(gattQueue).op = op
    /\ reply' = ""
    /\ GattFrame(callbacks)

\* peripheral(_:didDiscoverServices:)
didDiscoverServices(id) ==
    LET next == GattReq(id, "discoverCharacteristics", "", Head(gattQueue).call) IN
    /\ Delivers(id, "discoverServices", <<>>)
    /\ gattCache' = [gattCache EXCEPT ![id] = IF @ = "full" THEN "full" ELSE "services"]
    /\ issued' = <<next>>
    /\ gattQueue' = Append(Tail(gattQueue), next)
    /\ UNCHANGED gattCalls

\* peripheral(_:didDiscoverCharacteristicsFor:error:)
didDiscoverCharacteristicsFor(id) ==
    /\ Delivers(id, "discoverCharacteristics", <<>>)
    /\ gattCache' = [gattCache EXCEPT ![id] = "full"]
    /\ issued' = <<>>
    /\ gattQueue' = Tail(gattQueue)
    /\ gattCalls' = MarkAnswered(gattCalls, Head(gattQueue).call)

\* a delegate callback that takes the oldest request off the adapter and
\* invokes callbacks, and no completion
Answers(id, op, callbacks) ==
    /\ Delivers(id, op, callbacks)
    /\ issued' = <<>>
    /\ gattQueue' = Tail(gattQueue)
    /\ gattCalls' = MarkAnswered(gattCalls, Head(gattQueue).call)
    /\ UNCHANGED gattCache

\* peripheral(_:didUpdateValueFor:error:): notificationCallback?(id, uuid, hex)
didUpdateValueFor(id) ==
    Answers(id, "readValue",
            <<[callback |-> "notification", id |-> id, char |-> Head(gattQueue).char]>>)

\* peripheral(_:didWriteValueFor:error:)
didWriteValueFor(id) == Answers(id, "writeWithResponse", <<>>)

\* peripheral(_:didUpdateNotificationStateFor:error:)
didUpdateNotificationStateFor(id) == Answers(id, "setNotifyValue", <<>>)

\* peripheral(_:didReadRSSI:error:): rssiCallback?(id, rssi)
didReadRSSI(id) ==
    Answers(id, "readRSSI", <<[callback |-> "rssi", id |-> id, char |-> ""]>>)

\* ------------------------------------------- the TypeScript BleManager
\* setupEventListeners(): eventEmitter.addListener for each event, the
\* subscription stored over the one held before
setupEventListeners ==
    /\ jsSetups < MaxSetups
    /\ jsSetups' = jsSetups + 1
    /\ jsListeners' = [e \in EventNames |-> jsListeners[e] \cup {jsSetups + 1}]
    /\ jsSubscription' = [e \in EventNames |-> {jsSetups + 1}]

\* what a call on the TypeScript BleManager leaves alone: the native call it
\* makes is dispatched to the main queue and runs there as its own handler
JsFrame ==
    /\ jsDelivered' = <<>>
    /\ UNCHANGED <<peripherals, connVars, scanVars, gattVars, duVars, auxVars>>

\* startScan(filter?, options?, callback?); callback is {} when left out
jsStartScan(callback) ==
    /\ setupEventListeners
    /\ jsCallback' = [jsCallback EXCEPT !["onDeviceDiscovered"] = callback]
    /\ JsFrame

\* connect(id, timeout, autoReconnect, params?)
jsConnect ==
    /\ setupEventListeners
    /\ UNCHANGED jsCallback
    /\ JsFrame

\* setOnDeviceDiscoveredCallback(callback) and the six setters like it
setOnCallback(event, callback) ==
    /\ jsCallback' = [jsCallback EXCEPT ![event] = {callback}]
    /\ setupEventListeners
    /\ JsFrame

\* removeAllListeners()
removeAllListeners ==
    /\ jsListeners' = [e \in EventNames |-> jsListeners[e] \ jsSubscription[e]]
    /\ jsCallback' = [e \in EventNames |-> {}]
    /\ UNCHANGED <<jsSubscription, jsSetups>>
    /\ JsFrame

\* what n listeners of one event hand to the callback field: this.xCallback?.(data)
Invocations(n, callback) ==
    IF callback = {} THEN <<>> ELSE [i \in 1..n |-> CHOOSE cb \in callback : TRUE]

\* sendEvent(withName: event, body:) reaching the NativeEventEmitter
nativeEvent(event) ==
    /\ jsDelivered' = Invocations(Cardinality(jsListeners[event]), jsCallback[event])
    /\ UNCHANGED <<jsListeners, jsSubscription, jsCallback, jsSetups>>
    /\ UNCHANGED <<peripherals, connVars, scanVars, gattVars, duVars, auxVars>>

\* -------------------------------------------------------------- DataUtils
Min(a, b) == IF a < b THEN a ELSE b
Max(a, b) == IF a > b THEN a ELSE b

\* an index argument of Uint8Array.prototype.slice, taken from the end when
\* negative and clamped to the array
RelativeIndex(k, len) == IF k < 0 THEN Max(len + k, 0) ELSE Min(k, len)

SliceFromSecond(data, start, end) ==
    LET from == RelativeIndex(start, Len(data)) + 1
        to == RelativeIndex(end, Len(data))
    IN  IF to <= from THEN <<>> ELSE SubSeq(data, from + 1, to)

\* data.slice(start, end)
Slice(data, start, end) ==
    LET from == RelativeIndex(start, Len(data))
        to == RelativeIndex(end, Len(data))
    IN  IF to <= from THEN <<>> ELSE SubSeq(data, from + 1, to)

\* what any DataUtils call leaves alone
DuFrame == UNCHANGED <<peripherals, connVars, scanVars, gattVars, jsVars, auxVars>>

\* a DataUtils function that returns at once
Returns(op, arg, result) ==
    /\ duOp' = op
    /\ duArg' = arg
    /\ duResult' = result
    /\ duPc' = "done"
    /\ duI' = 0
    /\ duPackets' = <<>>
    /\ DuFrame

\* the loop of splitIntoPackets stops being followed after this many packets
MaxPackets == MaxLen + 1

\* DataUtils.splitIntoPackets(data, mtu, headerSize): entry, up to the loop
splitIntoPackets(data, mtu, headerSize) ==
    /\ duPc # "loop"
    /\ duOp' = "splitIntoPackets"
    /\ duArg' = [data |-> data, maxPayloadSize |-> mtu - headerSize]
    /\ duResult' = <<>>
    /\ duPc' = "loop"
    /\ duI' = 0
    /\ duPackets' = <<>>
    /\ DuFrame

\* one turn of for (let i = 0; i < data.length; i += maxPayloadSize)
splitLoop ==
    /\ duPc = "loop"
    /\ duI < Len(duArg.data)
    /\ Len(duPackets) < MaxPackets
    /\ duPackets' = Append(duPackets,
                           Slice(duArg.data, duI,
                                 Min(duI + duArg.maxPayloadSize, Len(duArg.data))))
    /\ duI' = duI + duArg.maxPayloadSize
    /\ UNCHANGED <<duOp, duArg, duResult, duPc>>
    /\ DuFrame

\* return packets
splitReturn ==
    /\ duPc = "loop"
    /\ ~(duI < Len(duArg.data))
    /\ duResult' = duPackets
    /\ duPc' = "done"
    /\ UNCHANGED <<duOp, duArg, duI, duPackets>>
    /\ DuFrame

SetAtStart(result, packet) == packet \o result

\* result.set(packet, offset); offset += packet.length
SetAtOffset(result, packet) == result \o packet

RECURSIVE SetAll(_, _)
\* for (const packet of packets) { ... }
SetAll(result, packets) ==
    IF packets = <<>> THEN result
    ELSE SetAll(SetAtOffset(result, Head(packets)), Tail(packets))

\* DataUtils.reassemblePackets(packets)
reassemblePackets(packets) == SetAll(<<>>, packets)

\* reassemblePackets applied to what splitIntoPackets returned; duArg keeps
\* the arguments of the split
reassembleSplit ==
    /\ duOp = "splitIntoPackets"
    /\ duPc = "done"
    /\ duOp' = "reassemblePackets"
    /\ duResult' = reassemblePackets(duResult)
    /\ UNCHANGED <<duArg, duPc, duI, duPackets>>
    /\ DuFrame

ByteToUpperHex(byte) ==
    <<UpperHexChars[(byte \div 16) + 1], UpperHexChars[(byte % 16) + 1]>>

\* byte.toString(16).padStart(2, '0'), and String(format: "%02x", byte)
ByteToHex(byte) == <<HexChars[(byte \div 16) + 1], HexChars[(byte % 16) + 1]>>

RECURSIVE ToHex(_)
\* the digits of every byte, joined
ToHex(data) ==
    IF data = <<>> THEN <<>> ELSE ByteToHex(Head(data)) \o ToHex(Tail(data))

\* DataUtils.uint8ArrayToHex(data)
uint8ArrayToHex(data) == ToHex(data)

\* Data.hexString
hexString(data) == ToHex(data)

\* parseInt(text, 16) of one or two characters, {} for NaN: an optional sign,
\* then the longest run of digits
parseInt16(text) ==
    LET signed == text # <<>> /\ text[1] = "+"
        digits == IF signed THEN Tail(text) ELSE text
    IN  IF digits = <<>> \/ HexDigit(digits[1]) = {} THEN {}
        ELSE IF Len(digits) = 2 /\ HexDigit(digits[2]) # {}
        THEN {16 * a + b : a \in HexDigit(digits[1]), b \in HexDigit(digits[2])}
        ELSE HexDigit(digits[1])

\* an element stored into a Uint8Array: NaN becomes 0, a number its low byte
ToUint8(number) == IF number = {} THEN 0 ELSE (CHOOSE n \in number : TRUE) % 256

RECURSIVE hexToUint8Array(_)
\* DataUtils.hexToUint8Array(hex): hex.substr(i, 2) for i = 0, 2, ...
hexToUint8Array(hex) ==
    IF hex = <<>> THEN <<>>
    ELSE LET two == SubSeq(hex, 1, Min(2, Len(hex)))
         IN  <<ToUint8(parseInt16(two))>>
             \o hexToUint8Array(SubSeq(hex, Len(two) + 1, Len(hex)))

\* DataUtils.uint8ArrayToHex(data) as a call
callUint8ArrayToHex(data) == Returns("uint8ArrayToHex", data, uint8ArrayToHex(data))

\* DataUtils.hexToUint8Array(hex) as a call
callHexToUint8Array(hex) == Returns("hexToUint8Array", hex, hexToUint8Array(hex))

\* data[k] as an operand of << and |: undefined counts as 0
At(data, k) == IF k + 1 \in DOMAIN data THEN data[k + 1] ELSE 0

\* the 32-bit signed result of | over the two 16-bit halves
Int32(hi16, lo16) ==
    [hi |-> IF hi16 >= 32768 THEN hi16 - 65536 ELSE hi16, lo |-> lo16]

\* uint > 0x7fffffff ? uint - 0x100000000 : uint
Signed32(uint) == IF uint.hi > 32767 THEN [uint EXCEPT !.hi = @ - 65536] ELSE uint

\* uint > 0x7fff ? uint - 0x10000 : uint
Signed16(uint) == IF uint > 32767 THEN uint - 65536 ELSE uint

uint8ArrayToUint16LE(data) == At(data, 1) * 256 + At(data, 0)
uint16LEToUint8Array(value) == <<value % 256, (value \div 256) % 256>>
uint8ArrayToUint32LE(data) ==
    Int32(At(data, 3) * 256 + At(data, 2), At(data, 1) * 256 + At(data, 0))
uint32LEToUint8Array(value) ==
    <<value.lo % 256, (value.lo \div 256) % 256,
      value.hi % 256, (value.hi \div 256) % 256>>
uint8ArrayToInt16LE(data) == Signed16(uint8ArrayToUint16LE(data))
int16LEToUint8Array(value) == uint16LEToUint8Array(value % 65536)
uint8ArrayToInt32LE(data) == Signed32(uint8ArrayToUint32LE(data))
int32LEToUint8Array(value) == uint32LEToUint8Array(Int32(value.hi % 65536, value.lo))

uint8ArrayToUint16BE(data) == At(data, 0) * 256 + At(data, 1)
uint16BEToUint8Array(value) == <<(value \div 256) % 256, value % 256>>
uint8ArrayToUint32BE(data) ==
    Int32(At(data, 0) * 256 + At(data, 1), At(data, 2) * 256 + At(data, 3))
uint32BEToUint8Array(value) ==
    <<(value.hi \div 256) % 256, value.hi % 256,
      (value.lo \div 256) % 256, value.lo % 256>>
uint8ArrayToInt16BE(data) == Signed16(uint8ArrayToUint16BE(data))
int16BEToUint8Array(value) == uint16BEToUint8Array(value % 65536)
uint8ArrayToInt32BE(data) == Signed32(uint8ArrayToUint32BE(data))
int32BEToUint8Array(value) == uint32BEToUint8Array(Int32(value.hi % 65536, value.lo))

\* the ...ToUint8Array function of a codec
Encode(codec, value) ==
    CASE codec = "Uint16LE" -> uint16LEToUint8Array(value)
      [] codec = "Uint16BE" -> uint16BEToUint8Array(value)
      [] codec = "Int16LE" -> int16LEToUint8Array(value)
      [] codec = "Int16BE" -> int16BEToUint8Array(value)
      [] codec = "Uint32LE" -> uint32LEToUint8Array(value)
      [] codec = "Uint32BE" -> uint32BEToUint8Array(value)
      [] codec = "Int32LE" -> int32LEToUint8Array(value)
      [] codec = "Int32BE" -> int32BEToUint8Array(value)

\* the uint8ArrayTo... function of a codec
Decode(codec, data) ==
    CASE codec = "Uint16LE" -> uint8ArrayToUint16LE(data)
      [] codec = "Uint16BE" -> uint8ArrayToUint16BE(data)
      [] codec = "Int16LE" -> uint8ArrayToInt16LE(data)
      [] codec = "Int16BE" -> uint8ArrayToInt16BE(data)
      [] codec = "Uint32LE" -> uint8ArrayToUint32LE(data)
      [] codec = "Uint32BE" -> uint8ArrayToUint32BE(data)
      [] codec = "Int32LE" -> uint8ArrayToInt32LE(data)
      [] codec = "Int32BE" -> uint8ArrayToInt32BE(data)

\* the numbers representable in the type of a codec
Representable(codec) ==
    CASE codec \in {"Uint16LE", "Uint16BE"} -> Uint16s
      [] codec \in {"Int16LE", "Int16BE"} -> Int16s
      [] codec \in {"Uint32LE", "Uint32BE"} -> Uint32s
      [] codec \in {"Int32LE", "Int32BE"} -> Int32s

\* the bytes of the type of a codec
Width(codec) == IF codec \in {"Uint16LE", "Uint16BE", "Int16LE", "Int16BE"} THEN 2 ELSE 4

\* an integer encoder as a call
callEncode(codec, value) ==
    Returns("encode", [codec |-> codec, value |-> value], Encode(codec, value))

\* an integer decoder as a call; a number comes back in a 1-tuple
callDecode(codec, data) ==
    Returns("decode", [codec |-> codec, value |-> data], <<Decode(codec, data)>>)

\* ------------------------------------------------------------------ Init
InitConn ==
    /\ peripherals = {}
    /\ pendingConnections = [i \in Ids |-> NoCall]
    /\ autoReconnectMap = [i \in Ids |-> {}]
    /\ connectionParameters = [i \in Ids |-> {}]
    /\ deadlines = {}
    /\ reconnects = [i \in Ids |-> 0]
    /\ calls = <<>>
    /\ periphState = [i \in Ids |-> "disconnected"]
    /\ cancelPending = [i \in Ids |-> FALSE]
    /\ issued = <<>>
    /\ reply = ""
    /\ emitted = <<>>
    /\ stopped = {}

InitScan ==
    /\ scanFilter = {}
    /\ scanOptions = {}
    /\ scanTimer = {}
    /\ discoveredDevices = [i \in Ids |-> {}]
    /\ adapterScan = {}
    /\ session = 0
    /\ scanEmitted = <<>>
    /\ lastStop = ""

InitGatt ==
    /\ gattCache = [i \in Ids |-> "none"]
    /\ gattQueue = <<>>
    /\ gattCalls = <<>>
    /\ gattEmitted = <<>>

InitJs ==
    /\ jsListeners = [e \in EventNames |-> {}]
    /\ jsSubscription = [e \in EventNames |-> {}]
    /\ jsCallback = [e \in EventNames |-> {}]
    /\ jsSetups = 0
    /\ jsDelivered = <<>>

InitDu ==
    /\ duOp = ""
    /\ duArg = <<>>
    /\ duResult = <<>>
    /\ duPc = "idle"
    /\ duI = 0
    /\ duPackets = <<>>

InitAux ==
    /\ suppliedParameters = [i \in Ids |-> {}]
    /\ timeoutPending = [c \in 1..MaxCalls |-> {}]
    /\ connectionStateCallback = {}
    /\ sent = <<>>
    /\ inFlight = {}

Init == InitConn /\ InitScan /\ InitGatt /\ InitJs /\ InitDu /\ InitAux

\* --------------------------------------------- connections: specification
Connect == \E idIn \in Targets \cup {BadId}, ar \in BOOLEAN, ps \in OptParams :
               \E rt \in (IF idIn \in peripherals THEN {TRUE} ELSE BOOLEAN) :
                   connect(idIn, ar, ps, rt)
Disconnect == \E idIn \in Targets \cup {BadId} : disconnect(idIn)
DidConnect == \E id \in Targets : didConnect(id)
DidDisconnect == \E id \in Targets : didDisconnectPeripheral(id)
DidFailToConnect == \E id \in Targets : didFailToConnect(id)
ConnectTimeout == \E c \in 1..MaxCalls : timeoutClosure(c)
Reconnect == \E id \in Targets : reconnectClosure(id)

Next ==
    \/ Connect
    \/ Disconnect
    \/ DidConnect
    \/ DidDisconnect
    \/ DidFailToConnect
    \/ ConnectTimeout
    \/ Reconnect

Spec == Init /\ [][Next]_vars

\* the main queue runs every closure scheduled on it
FairSpec ==
    /\ Spec
    /\ \A c \in 1..MaxCalls : WF_vars(timeoutClosure(c))
    /\ \A id \in Targets : WF_vars(reconnectClosure(id))

TypeOK ==
    /\ peripherals \subseteq Ids
    /\ Len(calls) <= MaxCalls
    /\ deadlines \subseteq 1..Len(calls)
    /\ \A i \in Ids : pendingConnections[i] \in 0..Len(calls)
    /\ Len(gattCalls) <= MaxOps
    /\ \A i \in Ids : gattCache[i] \in {"none", "services", "full"}
    /\ \A i \in DOMAIN gattQueue :
          /\ gattQueue[i].call \in 0..Len(gattCalls)
          /\ periphState[gattQueue[i].id] = "connected"

\* ---------------------------------------------------- GATT: specification
GattConnect == \E idIn \in Targets \cup {BadId} : connect(idIn, FALSE, {}, TRUE)
ReadCharacteristic == \E idIn \in Targets, ch \in Chars : readCharacteristic(idIn, ch)
WriteCharacteristic == \E idIn \in Targets, ch \in Chars, v \in HexInputs :
                           writeCharacteristic(idIn, ch, v)
EnableNotifications == \E idIn \in Targets, ch \in Chars, en \in BOOLEAN :
                           enableNotifications(idIn, ch, en)
DiscoverServices == \E idIn \in Targets : discoverServices(idIn)
ReadRSSI == \E idIn \in Targets : readRSSI(idIn)
RequestMTU == \E idIn \in Targets, mtu \in Mtus : requestMTU(idIn, mtu)
DidDiscoverServices == \E id \in Targets : didDiscoverServices(id)
DidDiscoverCharacteristics == \E id \in Targets : didDiscoverCharacteristicsFor(id)
DidUpdateValue == \E id \in Targets : didUpdateValueFor(id)
DidWriteValue == \E id \in Targets : didWriteValueFor(id)
DidUpdateNotificationState == \E id \in Targets : didUpdateNotificationStateFor(id)
DidReadRSSI == \E id \in Targets : didReadRSSI(id)

GattNext ==
    \/ GattConnect
    \/ DidConnect
    \/ DidDisconnect
    \/ ReadCharacteristic
    \/ WriteCharacteristic
    \/ EnableNotifications
    \/ DiscoverServices
    \/ ReadRSSI
    \/ RequestMTU
    \/ DidDiscoverServices
    \/ DidDiscoverCharacteristics
    \/ DidUpdateValue
    \/ DidWriteValue
    \/ DidUpdateNotificationState
    \/ DidReadRSSI

GattSpec == Init /\ [][GattNext]_vars

\* -------------------------------------- TypeScript BleManager: specification
JsStartScan == \E cb \in Opt(Callbacks) : jsStartScan(cb)
JsConnect == jsConnect
SetOnCallback == \E e \in EventNames, cb \in Callbacks : setOnCallback(e, cb)
RemoveAllListeners == removeAllListeners
NativeEvent == \E e \in EventNames : nativeEvent(e)

JsNext ==
    \/ JsStartScan
    \/ JsConnect
    \/ SetOnCallback
    \/ RemoveAllListeners
    \/ NativeEvent

JsSpec == Init /\ [][JsNext]_vars

\* ------------------------------------------------ DataUtils: specification
SplitIntoPackets == \E d \in ByteSeqs, mtu \in SplitMtus, h \in HeaderSizes :
                        splitIntoPackets(d, mtu, h)
SplitLoop == splitLoop
SplitReturn == splitReturn
ReassemblePackets == reassembleSplit
Uint8ArrayToHex == \E d \in ByteSeqs : duPc # "loop" /\ callUint8ArrayToHex(d)
HexToUint8Array == \E h \in HexStrings : duPc # "loop" /\ callHexToUint8Array(h)
EncodeInteger == \E c \in Codecs : \E v \in Representable(c) :
                     duPc # "loop" /\ callEncode(c, v)
DecodeInteger == \E c \in Codecs, b \in Buffers : duPc # "loop" /\ callDecode(c, b)

DataNext ==
    \/ SplitIntoPackets
    \/ SplitLoop
    \/ SplitReturn
    \/ ReassemblePackets
    \/ Uint8ArrayToHex
    \/ HexToUint8Array
    \/ EncodeInteger
    \/ DecodeInteger

DataSpec == Init /\ [][DataNext]_vars

\* splitIntoPackets alone: a started loop is run to its end
SplitNext ==
    \/ SplitIntoPackets
    \/ SplitLoop
    \/ SplitReturn

FairDataSpec ==
    Init /\ [][SplitNext]_vars /\ WF_vars(splitLoop) /\ WF_vars(splitReturn)

\* ------------------------------------------- the bridge: specification
RnStartScan == \E o \in Options : rnStartScan({}, o)
RnConnect == \E idIn \in Targets, ar \in BOOLEAN : connect(idIn, ar, {}, TRUE)

BridgeNext ==
    \/ RnStartScan
    \/ RnConnect
    \/ DidConnect
    \/ DidDisconnect
    \/ DidFailToConnect
    \/ ConnectTimeout
    \/ Reconnect

BridgeSpec == Init /\ [][BridgeNext]_vars

\* --------------------------- the deadline on the main queue: specification
RaceConnect == \E idIn \in Targets, ar \in BOOLEAN : connect(idIn, ar, {}, TRUE)
TimeoutRead == \E c \in 1..MaxCalls : timeoutRead(c)
TimeoutAct == \E c \in 1..MaxCalls : timeoutAct(c)

RaceNext ==
    \/ RaceConnect
    \/ TimeoutRead
    \/ TimeoutAct
    \/ DidConnect
    \/ DidFailToConnect
    \/ DidDisconnect
    \/ Reconnect

RaceSpec == Init /\ [][RaceNext]_vars

\* ------------------------------------------ two peripherals: specification
\* every connect asks for auto-reconnect and passes parameters
FrameConnect == \E idIn \in Ids, ps \in Opt(Params) \ {{}} : connect(idIn, TRUE, ps, TRUE)
FrameDisconnect == \E idIn \in Ids : disconnect(idIn)
FrameDidConnect == \E id \in Ids : didConnect(id)
FrameDidDisconnect == \E id \in Ids : didDisconnectPeripheral(id)
FrameDidFailToConnect == \E id \in Ids : didFailToConnect(id)
FrameReconnect == \E id \in Ids : reconnectClosure(id)

FrameNext ==
    \/ FrameConnect
    \/ FrameDisconnect
    \/ FrameDidConnect
    \/ FrameDidDisconnect
    \/ FrameDidFailToConnect
    \/ ConnectTimeout
    \/ FrameReconnect

FrameSpec == Init /\ [][FrameNext]_vars

\* ------------------------------ connection parameters: specification
ParamConnect == \E idIn \in Targets, ps \in OptParams : connect(idIn, TRUE, ps, TRUE)
UpdateConnectionParameters ==
    \E idIn \in Targets \cup {BadId}, ps \in NewParams :
        updateConnectionParameters(idIn, ps)

ParamNext ==
    \/ ParamConnect
    \/ UpdateConnectionParameters
    \/ DidConnect
    \/ DidDisconnect
    \/ DidFailToConnect
    \/ ConnectTimeout
    \/ Reconnect

ParamSpec == Init /\ [][ParamNext]_vars

\* --------------------------------------------------- scans: specification
StartScan == \E f \in Opt(Filters), o \in Options :
                 startScan(f, o) /\ UNCHANGED connectionStateCallback
StopScan == stopScan
ScanTimeout == scanTimerFired
DidDiscover == \E d \in Devices : didDiscover(d)

ScanNext ==
    \/ StartScan
    \/ StopScan
    \/ ScanTimeout
    \/ DidDiscover

ScanSpec == Init /\ [][ScanNext]_vars

\* the main run loop fires every scheduled Timer that is not invalidated
FairScanSpec == ScanSpec /\ WF_vars(scanTimerFired)

\* ------------------- discoveries on the manager's queue: specification
QueueStartScan == \E f \in RssiFilters, o \in Options :
                      startScan({f}, o) /\ UNCHANGED connectionStateCallback
AdapterQueues == \E d \in PlainDevices : adapterQueues(d)
DidDiscoverQueued == didDiscoverQueued

QueueNext ==
    \/ QueueStartScan
    \/ StopScan
    \/ ScanTimeout
    \/ AdapterQueues
    \/ DidDiscoverQueued

QueueSpec == Init /\ [][QueueNext]_vars

\* ------------------------------------- discovery then connect: specification
KnownStartScan == \E f \in RssiFilters, o \in Options :
                      startScan({f}, o) /\ UNCHANGED connectionStateCallback
KnownDidDiscover == \E d \in PlainDevices : didDiscover(d)
\* connect to an identifier the system cannot retrieve
KnownConnect == \E idIn \in Ids : connect(idIn, TRUE, {}, FALSE)

KnownNext ==
    \/ KnownStartScan
    \/ StopScan
    \/ KnownDidDiscover
    \/ KnownConnect
    \/ DidConnect
    \/ ConnectTimeout

KnownSpec == Init /\ [][KnownNext]_vars

\* --------------------------------------------------- connections: claims
\* call c holds the pending connect entry of its peripheral
Held(c) == c \in DOMAIN calls /\ pendingConnections[calls[c].id] = c

\* the entry of call c was overwritten by a later connectToPeripheral
Superseded(c) ==
    c \in DOMAIN calls /\ calls[c].result = "none" /\ pendingConnections[calls[c].id] # c

\* this step is connectToPeripheral for id, made by kind
Starts(id, kind) ==
    /\ Len(calls') = Len(calls) + 1
    /\ calls'[Len(calls')].id = id
    /\ calls'[Len(calls')].kind = kind

\* this step runs the timeout closure scheduled by call c
Fires(c) == c \in deadlines /\ c \notin deadlines'

HasOp(ops, op, id) == \E i \in DOMAIN ops : ops[i].op = op /\ ops[i].id = id

C2_SecondConnectRejected ==
    [][\A id \in Ids :
          ((pendingConnections[id] # NoCall \/ periphState[id] = "connected")
              /\ \E ar \in BOOLEAN, ps \in OptParams : connect(id, ar, ps, TRUE))
          => /\ pendingConnections'[id] = pendingConnections[id]
             /\ ~HasOp(issued', "connect", id)
             /\ reply' \in {"AlreadyConnecting", "AlreadyConnected"}]_vars

\* C3: the deadline of a call that has already resolved does nothing when
\* it fires.
C3_StaleDeadlineNoOp ==
    [][\A c \in DOMAIN calls :
          (Fires(c) /\ calls[c].result # "none")
          => /\ issued' = <<>>
             /\ calls' = calls
             /\ pendingConnections' = pendingConnections]_vars

\* C4: an accepted disconnect(id) has cleared the auto-reconnect entry when
\* it issues the adapter cancel, the entry stays cleared until connect(id)
\* is called, and the adapter's disconnected event then schedules nothing.
C4_DisconnectClearsAutoReconnect ==
    /\ [][\A id \in Ids :
             (id \in stopped' /\ HasOp(issued', "cancel", id) /\ reply' = "ok")
             => /\ autoReconnectMap'[id] = {FALSE}
                /\ issued' = <<CancelReq(id, {FALSE})>>]_vars
    /\ [][\A id \in Ids :
             (id \in stopped /\ didDisconnectPeripheral(id))
             => /\ autoReconnectMap[id] = {FALSE}
                /\ reconnects' = reconnects
                /\ issued' = <<>>]_vars

\* the disconnected event after disconnect() of a peripheral that had been
\* auto-reconnected before
C4_Witness ==
    /\ "A" \in stopped
    /\ emitted = <<Event("A", "disconnected")>>
    /\ reconnects["A"] = 0
    /\ \E c \in DOMAIN calls : calls[c].kind = "reconnect" /\ calls[c].result = "ok"

\* C5: after disconnect(id) no auto-reconnect connect is issued for id
\* until the caller calls connect(id) again.
C5_NoReconnectAfterDisconnect ==
    [][\A id \in Ids : (id \in stopped /\ Starts(id, "reconnect")) => FALSE]_vars

\* C6: an adapter disconnected event schedules one reconnect closure when
\* the auto-reconnect entry is true and none otherwise; nothing else
\* schedules one, and a closure that runs issues one adapter connect.
C6_OneReconnectPerDisconnect ==
    /\ [][\A id \in Ids :
             didDisconnectPeripheral(id) =>
                 /\ reconnects'[id] =
                       reconnects[id] + (IF autoReconnectMap[id] = {TRUE} THEN 1 ELSE 0)
                 /\ issued' = <<>>]_vars
    /\ [][\A id \in Ids :
             /\ reconnects'[id] > reconnects[id] =>
                   emitted' = <<Event(id, "disconnected")>>
             /\ reconnects'[id] < reconnects[id] =>
                   /\ reconnects'[id] = reconnects[id] - 1
                   /\ Starts(id, "reconnect")
                   /\ issued' = <<ConnectReq(id)>>]_vars

\* a disconnected event with the entry true has just scheduled a reconnect
C6_Witness ==
    /\ emitted = <<Event("A", "disconnected")>>
    /\ autoReconnectMap["A"] = {TRUE}
    /\ reconnects["A"] = 1

\* the caller's latest connect call for id
LastCallerCall(id) ==
    LET cs == {c \in DOMAIN calls : calls[c].id = id /\ calls[c].kind = "caller"}
    IN  IF cs = {} THEN NoCall ELSE CHOOSE c \in cs : \A d \in cs : d <= c

\* C7: once the caller's connect has ended in Timeout or failure, no adapter
\* connect is issued for the peripheral until the caller connects again.
C7_FailureIsTerminal ==
    [][\A id \in Ids :
          (LastCallerCall(id) # NoCall
              /\ calls[LastCallerCall(id)].result \in {"timeout", "failed"})
          => (HasOp(issued', "connect", id) => Starts(id, "caller"))]_vars

\* --------------------------------------------------------- scans: claims
\* the predicates a scan filter can carry, as the data model states them
FailsServices(f, d) ==
    f.serviceUUIDs # {} /\ \A u \in f.serviceUUIDs : u \cap d.serviceUUIDs = {}
FailsName(f, d) == f.name # {} /\ d.name # f.name
FailsPrefix(f, d) ==
    f.namePrefix # {} /\ ~(\E n \in d.name, q \in f.namePrefix : StartsWith(n, q))
FailsRssi(f, d) == f.minRssi # {} /\ \E m \in f.minRssi : d.rssi < m
FailsManufacturer(f, d) ==
    f.manufacturerData # {} /\ d.manufacturerData # f.manufacturerData

FailsSomePredicate(filter, d) ==
    \E f \in filter :
        \/ FailsServices(f, d)
        \/ FailsName(f, d)
        \/ FailsPrefix(f, d)
        \/ FailsRssi(f, d)
        \/ FailsManufacturer(f, d)

AllowDuplicates == \E o \in scanOptions : o.allowDuplicates
Continuous == \E o \in scanOptions : o.continuous

\* C8: in a session with allowDuplicates=false a passing observation is
\* emitted exactly when its identifier was not yet discovered in the
\* session; with allowDuplicates=true every passing observation is emitted.
C8_ScanDedup ==
    [][\A d \in Devices :
          (didDiscover(d) /\ ~FailsSomePredicate(scanFilter, d))
          => IF AllowDuplicates
             THEN scanEmitted' = <<d>>
             ELSE (scanEmitted' = <<d>>) <=> (discoveredDevices[d.id] = {})]_vars

\* C9: an observation failing any predicate present in the active filter
\* is not emitted and does not add its identifier to the known peripherals.
C9_FilterAndSemantics ==
    [][\A d \in Devices :
          (didDiscover(d) /\ FailsSomePredicate(scanFilter, d))
          => /\ scanEmitted' = <<>>
             /\ peripherals' = peripherals]_vars

\* C10: a pending scan timer was armed by the latest startScan, and a
\* continuous latest session has no timer pending that could stop it.
C10_TimerOfLatestSession ==
    /\ scanTimer \subseteq {session}
    /\ (Continuous /\ adapterScan # {}) => scanTimer = {}

\* C11: startScan without continuous arms a timer of its own, startScan with
\* continuous arms none, and an armed timer leads to the adapter scan being
\* stopped unless a new startScan comes first.
C11_ScanDeadline ==
    /\ [][session' = session + 1 =>
            IF \E o \in scanOptions' : o.continuous
            THEN scanTimer' = scanTimer
            ELSE scanTimer' = {session'}]_vars
    /\ \A n \in 1..(MaxScans + 1) :
          (session = n /\ scanTimer = {n}) ~> (adapterScan = {} \/ session # n)

\* the timer of the latest, non-continuous session has fired and stopped it
C11_Witness ==
    /\ lastStop = "timer"
    /\ ~Continuous
    /\ adapterScan = {}
    /\ scanTimer = {}

\* C12: stopScan stops the adapter scan and leaves no timer pending, touches
\* neither peripherals nor connections, and called with nothing active it
\* changes nothing.
C12_StopScanIdempotent ==
    /\ [][stopScan =>
            /\ adapterScan' = {}
            /\ scanTimer' = {}
            /\ UNCHANGED <<peripherals, connVars>>]_vars
    /\ [][(adapterScan = {} /\ scanTimer = {} /\ stopScan) =>
            UNCHANGED <<peripherals, connVars, scanFilter, scanOptions, scanTimer,
                        discoveredDevices, adapterScan, session>>]_vars

\* stopScan called again after a scan with an armed timer was stopped
C12_Witness ==
    /\ lastStop = "call-idle"
    /\ session > 0
    /\ ~Continuous
    /\ adapterScan = {}
    /\ scanTimer = {}

\* ------------------------------------------------------------ GATT claims
\* the completion of the last handler got an error
Failed == reply \notin {"", "ok"}

\* a call of one of the four GATT operations of the contract on peripheral id
GattCall(id) ==
    \/ \E ch \in Chars : readCharacteristic(id, ch)
    \/ \E ch \in Chars, v \in HexInputs : writeCharacteristic(id, ch, v)
    \/ \E ch \in Chars, en \in BOOLEAN : enableNotifications(id, ch, en)
    \/ discoverServices(id)

\* C13: readCharacteristic, writeCharacteristic, enableNotifications and
\* discoverServices on a peripheral that is not connected fail with an error
\* and issue no adapter request.
C13_NotConnectedRejected ==
    [][\A id \in Targets :
          (periphState[id] # "connected" /\ GattCall(id)) =>
              (Failed' /\ issued' = <<>>)]_vars

\* requests i and j at the adapter are of the same kind for the same
\* characteristic of the same peripheral
SameRequest(i, j) ==
    /\ gattQueue[i].op \in {"readValue", "writeWithResponse", "setNotifyValue"}
    /\ gattQueue[i].op = gattQueue[j].op
    /\ gattQueue[i].id = gattQueue[j].id
    /\ gattQueue[i].char = gattQueue[j].char

\* C14: at no time are two adapter requests of the same kind outstanding for
\* the same characteristic: a second readCharacteristic issued before the
\* first resolves is refused or held back.
C14_OneRequestPerCharacteristic ==
    \A i, j \in DOMAIN gattQueue : SameRequest(i, j) => i = j

\* C15: a read, write, discovery or RSSI call whose adapter response has been
\* delivered has had its completion invoked, also when discovery had to be
\* triggered for it first.
C15_AnsweredCallCompletes ==
    \A c \in DOMAIN gattCalls :
        (gattCalls[c].op \in {"read", "write", "discover", "rssi"}
            /\ gattCalls[c].answered) => gattCalls[c].result # "none"

\* a write call that reaches the characteristic: known peripheral, value that
\* parses, characteristic found in the discovered services
WriteReaches(id, ch, v) ==
    /\ getPeripheral(id) # {}
    /\ Cached(id, ch)
    /\ DataFromHex(v) # {}
    /\ writeCharacteristic(id, ch, v)

\* C16: a write that reaches the characteristic goes out without response if
\* the characteristic advertises that (whether or not it also advertises
\* acknowledged write), else with response if it advertises write, and else
\* fails as not writable with no adapter request.
C16_WriteModeByCapability ==
    [][\A id \in Targets, ch \in Chars, v \in HexInputs :
          WriteReaches(id, ch, v) =>
              IF "writeWithoutResponse" \in Properties[ch]
              THEN Len(issued') = 1 /\ issued'[1].op = "writeWithoutResponse"
                   /\ issued'[1].char = ch /\ ~Failed'
              ELSE IF "write" \in Properties[ch]
              THEN Len(issued') = 1 /\ issued'[1].op = "writeWithResponse"
                   /\ issued'[1].char = ch /\ ~Failed'
              ELSE reply' = "Characteristic not writable" /\ issued' = <<>>]_vars

C16_Witness ==
    /\ Len(issued) = 1
    /\ issued[1].op = "writeWithoutResponse"
    /\ issued[1].char = "c3"
    /\ {"write", "writeWithoutResponse"} \subseteq Properties["c3"]

\* C17: enableNotifications on a discovered characteristic that advertises
\* neither notify nor indicate fails with an error and issues no setNotify
\* request.
C17_NotNotifiableRejected ==
    [][\A id \in Targets, ch \in Chars, en \in BOOLEAN :
          (/\ Properties[ch] \cap {"notify", "indicate"} = {}
           /\ Cached(id, ch) /\ getPeripheral(id) # {}
           /\ enableNotifications(id, ch, en)) =>
              (Failed' /\ ~HasOp(issued', "setNotifyValue", id))]_vars

\* an even-length string of hexadecimal digits
ValidHex(s) == Len(s) % 2 = 0 /\ \A i \in DOMAIN s : HexDigit(s[i]) # {}

\* the call was refused: an error, no adapter request, manager state as before
Rejected ==
    /\ Failed'
    /\ issued' = <<>>
    /\ UNCHANGED <<peripherals, pendingConnections, autoReconnectMap,
                   connectionParameters, deadlines, reconnects, calls,
                   gattCache, gattQueue, gattCalls>>

\* C18: connect with a malformed identifier, writeCharacteristic with a value
\* that is not an even-length hex string and requestMTU with a non-positive
\* mtu are refused before any adapter call and without a state change.
C18_InvalidArgumentRejected ==
    [][/\ connect(BadId, FALSE, {}, TRUE) => Rejected
       /\ \A id \in Targets, ch \in Chars, v \in HexInputs :
             (getPeripheral(id) # {} /\ ~ValidHex(v) /\ writeCharacteristic(id, ch, v))
                 => Rejected
       /\ \A id \in Targets, mtu \in Mtus :
             (getPeripheral(id) # {} /\ mtu <= 0 /\ requestMTU(id, mtu))
                 => Rejected]_vars

\* ------------------------------------------- TypeScript BleManager claims
\* C19: one native event reaches the callback registered for it at most once,
\* whatever startScan, connect and setOn...Callback calls came before.
C19_EventDeliveredOnce ==
    [][\A e \in EventNames : nativeEvent(e) => Len(jsDelivered') <= 1]_vars

\* C20: startScan called without a callback leaves the callback registered
\* with setOnDeviceDiscoveredCallback in place, and a discovered device
\* reaches the callback in place.
C20_ScanKeepsRegisteredCallback ==
    /\ [][jsStartScan({}) =>
             jsCallback'["onDeviceDiscovered"] = jsCallback["onDeviceDiscovered"]]_vars
    /\ [][(nativeEvent("onDeviceDiscovered")
             /\ jsCallback["onDeviceDiscovered"] # {}
             /\ jsListeners["onDeviceDiscovered"] # {}) =>
                 \E i \in DOMAIN jsDelivered' :
                     jsDelivered'[i] \in jsCallback["onDeviceDiscovered"]]_vars

\* ------------------------------------------------- scans: further claims
\* C21: startScan leaves the set of identifiers seen empty, and in a session
\* with allowDuplicates=false a passing observation of an identifier not yet
\* seen in the session is reported, whether or not an earlier session
\* reported it.
C21_RestartResetsSeen ==
    /\ [][session' = session + 1 => \A i \in Ids : discoveredDevices'[i] = {}]_vars
    /\ [][(session' = session /\ ~AllowDuplicates) =>
             \A d \in Devices :
                (/\ discoveredDevices[d.id] = {}
                 /\ ~FailsSomePredicate(scanFilter, d)
                 /\ didDiscover(d)) => scanEmitted' = <<d>>]_vars

\* a second session has just started and forgot a peripheral an earlier
\* session reported
C21_Witness ==
    /\ session = 2
    /\ lastStop = ""
    /\ ~AllowDuplicates
    /\ scanEmitted = <<>>
    /\ \E i \in peripherals : discoveredDevices[i] = {}

\* C22: an observation that satisfies every predicate present in the active
\* filter is reported; an absent field, or no filter, rejects nothing, and
\* an RSSI equal to minRssi passes.
C22_PassingDeviceReported ==
    [][session' = session =>
          \A d \in Devices :
             (~FailsSomePredicate(scanFilter, d) /\ didDiscover(d))
             => /\ scanEmitted' = <<d>>
                /\ d.id \in peripherals']_vars

\* a device at exactly minRssi was reported
C22_Witness ==
    /\ scanEmitted # <<>>
    /\ \E f \in scanFilter : f.minRssi = {scanEmitted[1].rssi}

\* -------------------------------------------------------- DataUtils claims
\* the call made last is a splitIntoPackets with a payload size of at least 1
SplitWithRoom == duOp = "splitIntoPackets" /\ duArg.maxPayloadSize >= 1

\* C23: for mtu - headerSize >= 1, reassemblePackets applied to what
\* splitIntoPackets returned gives back the bytes that were split.
C23_ReassembleInvertsSplit ==
    (duOp = "reassemblePackets" /\ duArg.maxPayloadSize >= 1) => duResult = duArg.data

C23_Witness ==
    /\ duOp = "reassemblePackets"
    /\ duArg.maxPayloadSize >= 1
    /\ Len(duPackets) >= 2
    /\ duPackets[1] # duPackets[2]
    /\ duResult = duArg.data

\* the least number of chunks of at most p that hold len bytes
CeilDiv(len, p) == (len + p - 1) \div p

\* packets are the consecutive chunks of p bytes of data, the last one
\* holding what is left
ChunksOf(data, p, packets) ==
    /\ Len(packets) = CeilDiv(Len(data), p)
    /\ \A k \in DOMAIN packets :
          /\ packets[k] # <<>>
          /\ Len(packets[k]) <= p
          /\ k < Len(packets) => Len(packets[k]) = p
          /\ packets[k] = SubSeq(data, (k - 1) * p + 1, Min(k * p, Len(data)))

\* C24: for p = mtu - headerSize >= 1 splitIntoPackets terminates, and what
\* it returns is ceil(len/p) non-empty chunks in order, each of p bytes but
\* the last, covering the data once; empty data give no packet.
C24_SplitChunks ==
    /\ []((SplitWithRoom /\ duPc = "done")
            => ChunksOf(duArg.data, duArg.maxPayloadSize, duResult))
    /\ (SplitWithRoom /\ duPc = "loop") ~> (duPc = "done")

C24_Witness ==
    /\ SplitWithRoom
    /\ duPc = "done"
    /\ Len(duResult) = 2
    /\ Len(duResult[2]) < Len(duResult[1])

\* C25: splitIntoPackets with mtu - headerSize <= 0 fails, whatever the data.
C25_SplitRejectsNoRoom ==
    (/\ duOp = "splitIntoPackets"
     /\ duArg.maxPayloadSize <= 0
     /\ (duPc = "done" \/ duPackets # <<>>)) => duPc = "failed"

\* an even-length string of lower-case hexadecimal digits
ValidLowerHex(str) ==
    Len(str) % 2 = 0 /\ \A i \in DOMAIN str : \E j \in DOMAIN HexChars : HexChars[j] = str[i]

\* C26: decoding what was encoded gives back the bytes, and encoding what was
\* decoded from a valid lower-case hex string gives back the string, for the
\* DataUtils pair and for the native Data pair.
C26_HexRoundTrip ==
    /\ duOp = "uint8ArrayToHex" =>
          /\ hexToUint8Array(duResult) = duArg
          /\ DataFromHex(hexString(duArg)) = {duArg}
    /\ (duOp = "hexToUint8Array" /\ ValidLowerHex(duArg)) =>
          /\ uint8ArrayToHex(duResult) = duArg
          /\ DataFromHex(duArg) # {}
          /\ \A data \in DataFromHex(duArg) : hexString(data) = duArg

C26_Witness ==
    /\ duOp = "hexToUint8Array"
    /\ duArg = <<"0", "a">>
    /\ duResult = <<10>>

\* C27: hexToUint8Array fails on a string of odd length or with a character
\* that is no hex digit.
C27_HexDecodeRejectsInvalid ==
    (duOp = "hexToUint8Array" /\ ~ValidHex(duArg)) => duPc = "failed"

\* C28: for every codec and every number of its type, decoding what was
\* encoded gives back the number, and the encoding has the width of the type.
C28_IntegerRoundTrip ==
    duOp = "encode" =>
        /\ Len(duResult) = Width(duArg.codec)
        /\ Decode(duArg.codec, duResult) = duArg.value

\* C29: a decoder handed fewer bytes than its type holds fails.
C29_ShortBufferRejected ==
    (duOp = "decode" /\ Len(duArg.value) < Width(duArg.codec)) => duPc = "failed"

FailsLocally == reply' \in {"Invalid UUID", "Peripheral not found"}

\* C37: a connect or disconnect call that fails locally (invalid identifier,
\* peripheral not found) leaves the auto-reconnect flags, the pending connect
\* entries, the known peripherals and the stored connection parameters as
\* they were before the call.
C37_LocalFailureChangesNothing ==
    [][FailsLocally =>
          /\ autoReconnectMap' = autoReconnectMap
          /\ pendingConnections' = pendingConnections
          /\ peripherals' = peripherals
          /\ connectionParameters' = connectionParameters]_vars

\* C35: every connect call made for a known peripheral eventually has its
\* completion invoked, with success or an error, whatever other connect
\* calls or auto-reconnect attempts for the identifier start meanwhile.
C35_EveryConnectCompletes ==
    \A c \in 1..MaxCalls :
        (c \in DOMAIN calls /\ calls[c].kind = "caller")
            ~> (c \in DOMAIN calls /\ calls[c].result # "none")

\* C38: a device passed to the scan callback has its identifier among the
\* known peripherals at that moment and from then on: the identifiers of the
\* discovered devices are always known peripherals, no peripheral is ever
\* forgotten, and connect with a discovered identifier does not fail with
\* peripheral-not-found.
C38_DiscoveredIsKnown ==
    /\ [](\A i \in Ids : discoveredDevices[i] # {} => i \in peripherals)
    /\ [][/\ \A k \in DOMAIN scanEmitted' : scanEmitted'[k].id \in peripherals'
          /\ peripherals \subseteq peripherals']_vars
    /\ [][\A id \in Ids :
             (discoveredDevices[id] # {} /\ connect(id, TRUE, {}, FALSE))
             => /\ reply' = ""
                /\ issued' = <<ConnectReq(id)>>]_vars

\* connect was accepted for a discovered peripheral the system cannot
\* retrieve, after the scan had been stopped
C38_Witness ==
    /\ adapterScan = {}
    /\ Len(calls) = 1
    /\ issued = <<ConnectReq(calls[1].id)>>
    /\ reply = ""
    /\ discoveredDevices[calls[1].id] # {}
    /\ calls[1].id \in peripherals

\* every connect so far succeeded, so no deadline and no caller has cancelled
\* a link: the disconnected events so far were unsolicited
OnlyLostLinks == \A c \in DOMAIN calls : calls[c].result = "ok"

\* C32: the reconnect attempt that follows an unsolicited disconnect is made
\* with the connection parameters supplied last for the identifier, by
\* connect or by updateConnectionParameters, and with none if none were
\* supplied.
C32_ReconnectUsesLatestParameters ==
    [][\A id \in Ids :
          (OnlyLostLinks /\ Starts(id, "reconnect"))
          => calls'[Len(calls')].params = suppliedParameters[id]]_vars

\* C34: the completion of a connect call is invoked at most once however
\* the deadline closure on the main queue interleaves with the connected and
\* failed callbacks on the manager's queue: a result once given is never
\* replaced, and the deadline does not cancel the link of a call that was
\* reported as connected.
C34_CompletionAtMostOnce ==
    [][\A c \in DOMAIN calls :
          calls[c].result # "none" =>
             /\ calls'[c].result = calls[c].result
             /\ (calls[c].result = "ok" /\ Fires(c)) => issued' = <<>>]_vars

\* C40: once stopScan has run, by a call or by the scan deadline, no device
\* is passed to the scan callback and no peripheral is added to the known
\* set until startScan is called again, also when the adapter had a
\* discovery on its queue when the scan was stopped.
C40_NothingAfterStop ==
    [][(lastStop # "" /\ session' = session) =>
          /\ scanEmitted' = <<>>
          /\ peripherals' = peripherals]_vars

\* C36: every connected, disconnected or failed-to-connect event of the
\* adapter for a peripheral makes the bridge send onConnectionStateChanged,
\* whether or not startScan was called on the native module before.
C36_BridgeSendsConnectionState ==
    [][\A id \in Ids :
          /\ didConnect(id) => sent' = <<Event(id, "connected")>>
          /\ (didDisconnectPeripheral(id) \/ didFailToConnect(id))
                => sent' = <<Event(id, "disconnected")>>]_vars

\* C39: after removeAllListeners no listener the manager added to the native
\* event emitter is left and no callback field is set, whatever startScan,
\* connect and setOn...Callback calls came before; an event that arrives
\* while no callback is registered invokes nothing.
C39_RemoveAllListenersRemovesAll ==
    /\ [][removeAllListeners =>
             \A e \in EventNames : jsListeners'[e] = {} /\ jsCallback'[e] = {}]_vars
    /\ [][\A e \in EventNames :
             (nativeEvent(e) /\ jsCallback[e] = {}) => jsDelivered' = <<>>]_vars

\* this step is a command, a deadline or an adapter event for peripheral a
StepFor(a) ==
    \/ \E ps \in OptParams : connect(a, TRUE, ps, TRUE)
    \/ disconnect(a)
    \/ didConnect(a)
    \/ didDisconnectPeripheral(a)
    \/ didFailToConnect(a)
    \/ reconnectClosure(a)
    \/ \E c \in DOMAIN calls : calls[c].id = a /\ timeoutClosure(c)

====
